---- MODULE Spec2Model ----
(***************************************************************************)
(* NACA airfoil generator (src/airfoil.py): the three coordinate           *)
(* generators generate_naca4 / generate_naca5 / generate_naca6 and the     *)
(* Streamlit script that validates the form and calls them.                *)
(*                                                                         *)
(* Numbers.  The program computes in floating point.  Here a real v is     *)
(* the integer floor(v * Scale): a fixed-point number with four decimals,  *)
(* so that the literals of the source (0.2969, 0.15, 1/100, 1/20 ...) are  *)
(* exact.  Products and quotients round towards minus infinity.  A         *)
(* comparison x < p is made on the represented values, as the program      *)
(* makes it on its floats.                                                 *)
(*                                                                         *)
(* Strings.  A Python str is a sequence of one-character strings.  The     *)
(* character U+00B2 (superscript two) is written "sup2".                   *)
(***************************************************************************)
EXTENDS Integers, Sequences, FiniteSets, TLC

VARIABLES
    series,        \* st.selectbox value
    naca,          \* designation: st.text_input value / the `naca` argument
    chord_length,  \* st.number_input value / the `chord` argument
    num_points,    \* the `num_points` argument
    pc,            \* "ready": nothing generated in this run; "done": a run ended
    ret,           \* the last generator call: its locals and what it returned
    display        \* what the script run has emitted to the page

vars == <<series, naca, chord_length, num_points, pc, ret, display>>

----------------------------------------------------------------------------
(* Bounds of the model *)

\* largest sample count passed to a generator that is called directly
MaxPoints == 4

----------------------------------------------------------------------------
(* Fixed-point arithmetic standing for the program's float arithmetic *)

Scale == 10 * 1000

Abs(a) == IF a < 0 THEN 0 - a ELSE a

\* floor(a * b / Scale), with a split into whole and fractional part so that
\* the intermediate product stays inside 32 bits
MulSplit(a, b) == (a \div Scale) * b + ((a % Scale) * b) \div Scale

Mul(a, b) == IF Abs(a) >= Abs(b) THEN MulSplit(a, b) ELSE MulSplit(b, a)

\* a / b for b # 0
Div(a, b) == (a * Scale) \div b

RECURSIVE SqrtSearch(_, _, _)
SqrtSearch(v, lo, hi) ==
    IF lo >= hi THEN lo
    ELSE LET mid == (lo + hi + 1) \div 2
         IN  IF mid * mid <= v THEN SqrtSearch(v, mid, hi)
                               ELSE SqrtSearch(v, lo, mid - 1)

ISqrt(v) == SqrtSearch(v, 0, 46340)

\* np.sqrt on a fixed-point number: sqrt(v / Scale) * Scale
Sqrt(v) == IF v <= 200000 THEN ISqrt(v * Scale) ELSE 10 * ISqrt(v * 100)

\* np.arctan: the angle is kept as its sine and cosine,
\* sin(arctan d) = d / sqrt(1 + d^2), cos(arctan d) = 1 / sqrt(1 + d^2)
ArcTan(d) ==
    LET h == Sqrt(Scale + Mul(d, d))
    IN  [sin |-> Div(d, h), cos |-> Div(Scale, h)]

----------------------------------------------------------------------------
(* Python str and int() *)

\* digits of the designations passed to a generator that is called directly
Digits == {"0", "5", "9"}

\* characters typed into the form: decimal digits, a letter, and U+00B2,
\* for which str.isdigit() is True and int() raises ValueError
FormChars == {"0", "5", "a", "sup2"}

AsciiDigits == {"0", "1", "2", "3", "4", "5", "6", "7", "8", "9"}

DigitVal(c) ==
    CASE c = "0" -> 0 [] c = "1" -> 1 [] c = "2" -> 2 [] c = "3" -> 3
      [] c = "4" -> 4 [] c = "5" -> 5 [] c = "6" -> 6 [] c = "7" -> 7
      [] c = "8" -> 8 [] c = "9" -> 9

\* str.isdigit(): non-empty and every character has the Unicode property
\* Numeric_Type = Digit or Decimal; U+00B2 has it
isdigit(s) == Len(s) > 0 /\ \A k \in 1..Len(s) : s[k] \in AsciiDigits \cup {"sup2"}

\* int(s) returns (rather than raising ValueError)
IntParses(s) == Len(s) > 0 /\ \A k \in 1..Len(s) : s[k] \in AsciiDigits

RECURSIVE int(_)
int(s) == IF Len(s) = 0 THEN 0
          ELSE 10 * int(SubSeq(s, 1, Len(s) - 1)) + DigitVal(s[Len(s)])

\* Python slice s[a:b] with 0 <= a, on 0-based positions
Slice(s, a, b) == SubSeq(s, a + 1, IF b < Len(s) THEN b ELSE Len(s))

\* Python slice s[a:]
SliceFrom(s, a) == SubSeq(s, a + 1, Len(s))

\* Python slice s[-k:]
SliceLast(s, k) == SubSeq(s, (IF Len(s) > k THEN Len(s) - k ELSE 0) + 1, Len(s))

----------------------------------------------------------------------------
(* numpy helpers *)

\* np.linspace(0, 1, n) for n >= 0
linspace(n) ==
    [i \in 1..n |-> IF n = 1 THEN 0
                    ELSE IF i = n THEN Scale
                    ELSE ((i - 1) * Scale) \div (n - 1)]

\* variant: the lower surface keeps its leading-edge point
AssembleWholeLower(upper, lower) ==
    [k \in 1..Len(upper) |-> upper[Len(upper) + 1 - k]] \o lower

\* variant: the upper surface is not reversed
AssembleForward(upper, lower) == upper \o SubSeq(lower, 2, Len(lower))

\* variant: the chord factor is dropped
ScaleByChordDropped(a, chord) == a

Reverse(s) == [k \in 1..Len(s) |-> s[Len(s) + 1 - k]]

\* np.concatenate([upper[::-1], lower[1:]])
Assemble(upper, lower) == Reverse(upper) \o SliceFrom(lower, 1)

\* array * chord
ScaleByChord(a, chord) == [k \in 1..Len(a) |-> Mul(a[k], chord)]

\* yt = 5 * t * (0.2969*sqrt(x) - 0.1260*x - 0.3516*x**2 + 0.2843*x**3 - 0.1015*x**4)
Thickness(t, xi) ==
    LET x2 == Mul(xi, xi)
        x3 == Mul(x2, xi)
        x4 == Mul(x2, x2)
    IN  Mul(5 * t, Mul(2969, Sqrt(xi)) - Mul(1260, xi) - Mul(3516, x2)
                     + Mul(2843, x3) - Mul(1015, x4))

\* the sample each output point comes from: surface and 0-based index
Tags(surface, n) == [i \in 1..n |-> <<surface, i - 1>>]

----------------------------------------------------------------------------
(* What a generator call leaves behind: the exception it raised or the pair *)
(* it returned, and its local arrays (indexed 1..n for samples 0..n-1)      *)

NoCall ==
    [fn |-> "none", raised |-> "none", returned |-> FALSE,
     x_coords |-> <<>>, y_coords |-> <<>>,
     x |-> <<>>, yt |-> <<>>, yc |-> <<>>, dyc_dx |-> <<>>, hits |-> <<>>,
     xu |-> <<>>, yu |-> <<>>, xl |-> <<>>, yl |-> <<>>, order |-> <<>>]

Raise(f, e) == [NoCall EXCEPT !.fn = f, !.raised = e]

----------------------------------------------------------------------------
(* generate_naca4 *)

\* variant: the seam sample x = p goes to the forward branch
Fwd4Inclusive(xi, p) == xi <= p /\ p # 0

\* variant: the aft branch is not guarded by p != 0
Aft4Unguarded(xi, p) == ~(xi < p /\ p # 0)

\* line 25: if x[i] < p and p != 0
Fwd4(xi, p) == xi < p /\ p # 0

\* line 28: elif p != 0
Aft4(xi, p) == ~Fwd4(xi, p) /\ p # 0

\* lines 26-27
Camber4Forward(xi, m, p) ==
    [yc     |-> Mul(Div(m, Mul(p, p)), Mul(2 * p, xi) - Mul(xi, xi)),
     dyc_dx |-> Mul(Div(2 * m, Mul(p, p)), p - xi)]

\* lines 29-30
Camber4Aft(xi, m, p) ==
    [yc     |-> Mul(Div(m, Mul(Scale - p, Scale - p)),
                    (Scale - 2 * p) + Mul(2 * p, xi) - Mul(xi, xi)),
     dyc_dx |-> Mul(Div(2 * m, Mul(Scale - p, Scale - p)), p - xi)]

\* one pass of the loop body (lines 24-30) over sample xi; hits lists the
\* branches that assigned yc[i] and dyc_dx[i], in order
Sample4(xi, m, p) ==
    LET s0 == [yc |-> 0, dyc_dx |-> 0, hits |-> <<>>]
        s1 == IF Fwd4(xi, p)
              THEN [yc |-> Camber4Forward(xi, m, p).yc,
                    dyc_dx |-> Camber4Forward(xi, m, p).dyc_dx,
                    hits |-> Append(s0.hits, "fwd")]
              ELSE s0
    IN  IF Aft4(xi, p)
        THEN [yc |-> Camber4Aft(xi, m, p).yc,
              dyc_dx |-> Camber4Aft(xi, m, p).dyc_dx,
              hits |-> Append(s1.hits, "aft")]
        ELSE s1

\* lines 32-42, shared with generate_naca5 (lines 66-76): surfaces from the
\* camber line and the thickness, assembled and scaled by the chord
Surfaces(f, x, yt, cam, chord) ==
    LET n     == Len(x)
        theta == [i \in 1..n |-> ArcTan(cam[i].dyc_dx)]
        xu    == [i \in 1..n |-> x[i] - Mul(yt[i], theta[i].sin)]
        yu    == [i \in 1..n |-> cam[i].yc + Mul(yt[i], theta[i].cos)]
        xl    == [i \in 1..n |-> x[i] + Mul(yt[i], theta[i].sin)]
        yl    == [i \in 1..n |-> cam[i].yc - Mul(yt[i], theta[i].cos)]
    IN  [fn |-> f, raised |-> "none", returned |-> TRUE,
         x_coords |-> ScaleByChord(Assemble(xu, xl), chord),
         y_coords |-> ScaleByChord(Assemble(yu, yl), chord),
         x |-> x, yt |-> yt,
         yc |-> [i \in 1..n |-> cam[i].yc],
         dyc_dx |-> [i \in 1..n |-> cam[i].dyc_dx],
         hits |-> [i \in 1..n |-> cam[i].hits],
         xu |-> xu, yu |-> yu, xl |-> xl, yl |-> yl,
         order |-> Assemble(Tags("upper", n), Tags("lower", n))]

\* p = int(naca[1]) / 10
P4(nac) == (int(Slice(nac, 1, 2)) * Scale) \div 10

generate_naca4(nac, chord, n) ==
    IF ~(IntParses(Slice(nac, 0, 1)) /\ IntParses(Slice(nac, 1, 2))
         /\ IntParses(SliceFrom(nac, 2)))
    THEN Raise("generate_naca4", "ValueError")       \* int() at lines 14-16
    ELSE IF n < 0
    THEN Raise("generate_naca4", "ValueError")       \* np.linspace at line 18
    ELSE
    LET m   == (int(Slice(nac, 0, 1)) * Scale) \div 100
        p   == P4(nac)
        t   == (int(SliceFrom(nac, 2)) * Scale) \div 100
        x   == linspace(n)
        yt  == [i \in 1..n |-> Thickness(t, x[i])]
        cam == [i \in 1..n |-> Sample4(x[i], m, p)]
    IN  Surfaces("generate_naca4", x, yt, cam, chord)

----------------------------------------------------------------------------
(* generate_naca5 *)

\* line 59: if x[i] < p and p != 0
Fwd5(xi, p) == xi < p /\ p # 0

\* line 62: elif p != 0
Aft5(xi, p) == ~Fwd5(xi, p) /\ p # 0

\* lines 60-61
Camber5Forward(xi, cld, p) ==
    [yc     |-> Mul(cld \div 6, 3 * Mul(p, p) - Mul(6 * p, xi) + 4 * Mul(xi, xi)),
     dyc_dx |-> Mul(cld \div 6, 8 * xi - 6 * p)]

\* lines 63-64
Camber5Aft(xi, cld, p) ==
    [yc     |-> Mul(cld \div 6, 3 * Mul(p, p) - Mul(6 * p, xi) + 4 * Mul(xi, xi)),
     dyc_dx |-> Mul(cld \div 6, 8 * xi - 6 * p)]

\* one pass of the loop body (lines 58-64)
Sample5(xi, cld, p) ==
    LET s0 == [yc |-> 0, dyc_dx |-> 0, hits |-> <<>>]
        s1 == IF Fwd5(xi, p)
              THEN [yc |-> Camber5Forward(xi, cld, p).yc,
                    dyc_dx |-> Camber5Forward(xi, cld, p).dyc_dx,
                    hits |-> Append(s0.hits, "fwd")]
              ELSE s0
    IN  IF Aft5(xi, p)
        THEN [yc |-> Camber5Aft(xi, cld, p).yc,
              dyc_dx |-> Camber5Aft(xi, cld, p).dyc_dx,
              hits |-> Append(s1.hits, "aft")]
        ELSE s1

\* cld = int(naca[0]) * 0.15
Cld5(nac) == int(Slice(nac, 0, 1)) * 1500

\* p = int(naca[1:3]) / 20
P5(nac) == (int(Slice(nac, 1, 3)) * Scale) \div 20

generate_naca5(nac, chord, n) ==
    IF ~(IntParses(Slice(nac, 0, 1)) /\ IntParses(Slice(nac, 1, 3))
         /\ IntParses(Slice(nac, 3, 5)))
    THEN Raise("generate_naca5", "ValueError")       \* int() at lines 48-50
    ELSE IF n < 0
    THEN Raise("generate_naca5", "ValueError")       \* np.linspace at line 52
    ELSE
    LET cld == Cld5(nac)
        p   == P5(nac)
        t   == (int(Slice(nac, 3, 5)) * Scale) \div 100
        x   == linspace(n)
        yt  == [i \in 1..n |-> Thickness(t, x[i])]
        cam == [i \in 1..n |-> Sample5(x[i], cld, p)]
    IN  Surfaces("generate_naca5", x, yt, cam, chord)

----------------------------------------------------------------------------
(* generate_naca6 *)

\* The function has no camber arrays and no xu/yu/xl/yl: it assembles x with
\* itself and yt with -yt (lines 87-88).  The record's xu, yu, xl, yl hold
\* those four operands.
generate_naca6(nac, chord, n) ==
    IF ~IntParses(SliceLast(nac, 3))
    THEN Raise("generate_naca6", "ValueError")       \* int() at line 81
    ELSE IF n < 0
    THEN Raise("generate_naca6", "ValueError")       \* np.linspace at line 83
    ELSE
    LET t    == (int(SliceLast(nac, 3)) * Scale) \div 100
        x    == linspace(n)
        yt   == [i \in 1..n |-> Thickness(t, x[i])]
        negy == [i \in 1..n |-> 0 - yt[i]]
    IN  [fn |-> "generate_naca6", raised |-> "none", returned |-> TRUE,
         x_coords |-> ScaleByChord(Assemble(x, x), chord),
         y_coords |-> ScaleByChord(Assemble(yt, negy), chord),
         x |-> x, yt |-> yt, yc |-> <<>>, dyc_dx |-> <<>>, hits |-> <<>>,
         xu |-> x, yu |-> yt, xl |-> x, yl |-> negy,
         order |-> Assemble(Tags("upper", n), Tags("lower", n))]

\* the generator of a series
Generate(s, nac, chord, n) ==
    IF s = "4-digit" THEN generate_naca4(nac, chord, n)
    ELSE IF s = "5-digit" THEN generate_naca5(nac, chord, n)
    ELSE generate_naca6(nac, chord, n)

\* digit count of a series (max_chars at lines 97-101, len() at lines 106-108)
NumDigits(s) == IF s = "4-digit" THEN 4 ELSE IF s = "5-digit" THEN 5 ELSE 6

SeriesOptions == {"4-digit", "5-digit", "6-digit"}

----------------------------------------------------------------------------
(* A caller of the generator functions: the arguments are drawn from       *)
(* bounded sets, then the function of the series is called once.           *)

\* chord arguments of a direct call: -1.0, 0, 0.5, 1.0, 2.0
CallChords == {0 - Scale, 0, Scale \div 2, Scale, 2 * Scale}

\* what a script run has put on the page: the st.error text, an uncaught
\* exception, the plot and its label, the download button, and the message
\* calls made (st.error, st.warning, st.info ...)
NoDisplay == [error |-> "none", exception |-> "none", plotted |-> FALSE,
              plot_x |-> <<>>, plot_y |-> <<>>, label |-> <<>>,
              download |-> FALSE, messages |-> {}]

InitGen ==
    /\ series \in SeriesOptions
    /\ naca \in [1..NumDigits(series) -> Digits]
    /\ chord_length \in CallChords
    /\ num_points \in (0 - 1)..MaxPoints
    /\ pc = "ready"
    /\ ret = NoCall
    /\ display = NoDisplay

CallNaca4 ==
    /\ pc = "ready" /\ series = "4-digit"
    /\ ret' = generate_naca4(naca, chord_length, num_points)
    /\ pc' = "done"
    /\ UNCHANGED <<series, naca, chord_length, num_points, display>>

CallNaca5 ==
    /\ pc = "ready" /\ series = "5-digit"
    /\ ret' = generate_naca5(naca, chord_length, num_points)
    /\ pc' = "done"
    /\ UNCHANGED <<series, naca, chord_length, num_points, display>>

CallNaca6 ==
    /\ pc = "ready" /\ series = "6-digit"
    /\ ret' = generate_naca6(naca, chord_length, num_points)
    /\ pc' = "done"
    /\ UNCHANGED <<series, naca, chord_length, num_points, display>>

NextGen == CallNaca4 \/ CallNaca5 \/ CallNaca6

SpecGen == InitGen /\ [][NextGen]_vars

----------------------------------------------------------------------------
(* The Streamlit script (lines 94-141).  Every interaction with a widget    *)
(* reruns the script from the top, which redraws the page: what an earlier  *)
(* run displayed is gone, and the button reads True only in the run its     *)
(* click starts.                                                            *)

\* default of the num_points parameter (lines 13, 44, 78); the script never
\* passes another value
DefaultNumPoints == 100

\* number_input bounds and default (line 103): 0.01, 100.0, 1.0
MinChordValue == Scale \div 100
MaxChordValue == 100 * Scale
DefaultChord == Scale

\* values a user tries to put in the chord field: -1.0, 0, 0.01, 1.0, 2.0, 100.0, 200.0
FormChords == {0 - Scale, 0, Scale \div 100, Scale, 2 * Scale, 100 * Scale, 200 * Scale}

Init ==
    /\ series = "4-digit"
    /\ naca = <<>>
    /\ chord_length = DefaultChord
    /\ num_points = DefaultNumPoints
    /\ pc = "ready"
    /\ ret = NoCall
    /\ display = NoDisplay

\* a rerun in which the button is not clicked draws the widgets only
Rerun ==
    /\ pc' = "ready"
    /\ ret' = NoCall
    /\ display' = NoDisplay
    /\ UNCHANGED num_points

\* line 94; lines 96-101 then create the text_input of the new series, a new
\* widget, which starts empty
SelectSeries(s) ==
    /\ s # series
    /\ series' = s
    /\ naca' = <<>>
    /\ UNCHANGED chord_length
    /\ Rerun

\* lines 97-101: the text field takes one more character, up to max_chars
TypeChar(c) ==
    /\ Len(naca) < NumDigits(series)
    /\ naca' = Append(naca, c)
    /\ UNCHANGED <<series, chord_length>>
    /\ Rerun

\* lines 97-101: the last character of the text field is deleted
DeleteChar ==
    /\ Len(naca) > 0
    /\ naca' = SubSeq(naca, 1, Len(naca) - 1)
    /\ UNCHANGED <<series, chord_length>>
    /\ Rerun

\* line 103: the number field accepts a value inside [min_value, max_value]
SetChord(c) ==
    /\ MinChordValue <= c /\ c <= MaxChordValue
    /\ c # chord_length
    /\ chord_length' = c
    /\ UNCHANGED <<series, naca>>
    /\ Rerun

\* lines 106-108
ValidDigits ==
    \/ (series = "4-digit" /\ Len(naca) = 4 /\ isdigit(naca))
    \/ (series = "5-digit" /\ Len(naca) = 5 /\ isdigit(naca))
    \/ (series = "6-digit" /\ Len(naca) = 6 /\ isdigit(naca))

\* lines 105-141: the run a click on "Generate Airfoil" starts
ClickGenerate ==
    /\ pc' = "done"
    /\ UNCHANGED <<series, naca, chord_length, num_points>>
    /\ IF ValidDigits
       THEN /\ ret' = Generate(series, naca, chord_length, DefaultNumPoints)
            /\ display' =
                 IF ret'.raised # "none"
                 THEN \* the exception leaves the script; Streamlit shows it
                      [NoDisplay EXCEPT !.exception = ret'.raised]
                 ELSE [NoDisplay EXCEPT
                         !.plotted = TRUE,                \* lines 118-125
                         !.plot_x = ret'.x_coords,
                         !.plot_y = ret'.y_coords,
                         !.label = <<"NACA ">> \o naca,
                         !.download = TRUE]               \* lines 128-139
       ELSE /\ ret' = NoCall
            /\ display' = [NoDisplay EXCEPT                   \* line 141
                             !.error = "Please enter valid digits for the selected series.",
                             !.messages = {"st.error"}]

Next ==
    \/ \E s \in SeriesOptions : SelectSeries(s)
    \/ \E c \in FormChars : TypeChar(c)
    \/ DeleteChar
    \/ \E c \in FormChords : SetChord(c)
    \/ ClickGenerate

Spec == Init /\ [][Next]_vars

----------------------------------------------------------------------------
(* Properties.  A direct call is "valid" when its chord is positive and    *)
(* its sample count is at least 2; its designation always is.              *)

Called == pc = "done" /\ ret.fn # "none"

\* C1: for every series, valid digit string, valid chord and n >= 2, the
\* returned x sequence and y sequence each have exactly 2n - 1 elements.
C1_OutputLength ==
    (Called /\ chord_length > 0 /\ num_points >= 2)
        => /\ ret.returned
           /\ Len(ret.x_coords) = 2 * num_points - 1
           /\ Len(ret.y_coords) = 2 * num_points - 1

C1_Witness ==
    /\ Called /\ series = "5-digit" /\ chord_length = Scale
    /\ num_points = MaxPoints /\ Len(ret.x_coords) = 2 * MaxPoints - 1

\* C2: a click with a digit string of the wrong length or with a character
\* that is no decimal digit fails with the invalid-designation message and
\* nothing else: no generator is called, nothing is plotted or exported.
C2_InvalidDesignationRejected ==
    (pc = "done" /\ (\/ Len(naca) # NumDigits(series)
                     \/ \E k \in 1..Len(naca) : naca[k] \notin AsciiDigits))
        => /\ display.error # "none"
           /\ display.exception = "none"
           /\ ret.fn = "none"
           /\ ~display.plotted
           /\ ~display.download

\* C3: a call with chord = 0 or a negative chord fails and returns no
\* coordinate sequence.
C3_NonPositiveChordRejected ==
    (Called /\ chord_length <= 0 /\ num_points >= 2)
        => (ret.raised # "none" /\ ~ret.returned)

\* C4: a call with num_points < 2 fails and returns no coordinate sequence.
C4_SmallSampleCountRejected ==
    (Called /\ num_points < 2 /\ chord_length > 0)
        => (ret.raised # "none" /\ ~ret.returned)

\* C5: the returned sequence is the upper surface for sample indices n-1
\* down to 0, then the lower surface for indices 1 up to n-1; sample 0
\* appears exactly once; the first and the last point come from sample n-1.
C5_Order ==
    (Called /\ chord_length > 0 /\ num_points >= 2)
        => LET n == num_points
           IN  /\ Len(ret.order) = Len(ret.x_coords)
               /\ Len(ret.order) = Len(ret.y_coords)
               /\ \A k \in 1..n :
                     /\ ret.order[k] = <<"upper", n - k>>
                     /\ ret.x_coords[k] = Mul(ret.xu[n - k + 1], chord_length)
                     /\ ret.y_coords[k] = Mul(ret.yu[n - k + 1], chord_length)
               /\ \A j \in 1..(n - 1) :
                     /\ ret.order[n + j] = <<"lower", j>>
                     /\ ret.x_coords[n + j] = Mul(ret.xl[j + 1], chord_length)
                     /\ ret.y_coords[n + j] = Mul(ret.yl[j + 1], chord_length)
               /\ Cardinality({k \in 1..Len(ret.order) : ret.order[k][2] = 0}) = 1
               /\ ret.order[1][2] = n - 1
               /\ ret.order[Len(ret.order)][2] = n - 1

C5_Witness ==
    /\ Called /\ series = "4-digit" /\ chord_length = Scale \div 2
    /\ num_points = 3 /\ naca = <<"5", "5", "0", "9">>
    /\ ret.order = <<<<"upper", 2>>, <<"upper", 1>>, <<"upper", 0>>,
                     <<"lower", 1>>, <<"lower", 2>>>>
    /\ ret.y_coords[2] # ret.y_coords[4]

\* C6: for a four-digit designation whose second digit is 0, whatever m,
\* generate_naca4 runs neither camber branch (so divides by nothing) and
\* leaves yc and dyc_dx zero at every sample.
C6_ZeroCamberPosition ==
    (Called /\ ret.fn = "generate_naca4" /\ naca[2] = "0" /\ num_points >= 0)
        => /\ ret.returned
           /\ Len(ret.yc) = num_points
           /\ Len(ret.dyc_dx) = num_points
           /\ \A i \in 1..num_points :
                 ret.yc[i] = 0 /\ ret.dyc_dx[i] = 0 /\ ret.hits[i] = <<>>

C6_Witness ==
    /\ Called /\ ret.fn = "generate_naca4" /\ naca[1] = "9" /\ naca[2] = "0"
    /\ num_points = 3 /\ ret.yc = <<0, 0, 0>>

\* C7: for every series, digit string and n, the sequence for chord 2.0 is,
\* element by element in x and y, 2.0 times the sequence for chord 1.0.
C7_ChordScaling ==
    (Called /\ chord_length = 2 * Scale)
        => LET one == Generate(series, naca, Scale, num_points)
           IN  /\ ret.returned = one.returned
               /\ Len(ret.x_coords) = Len(one.x_coords)
               /\ Len(ret.y_coords) = Len(one.y_coords)
               /\ \A k \in 1..Len(one.x_coords) :
                     /\ ret.x_coords[k] = Mul(2 * Scale, one.x_coords[k])
                     /\ ret.y_coords[k] = Mul(2 * Scale, one.y_coords[k])

C7_Witness ==
    /\ Called /\ chord_length = 2 * Scale /\ series = "6-digit"
    /\ num_points = 3 /\ ret.returned
    /\ ret.x_coords[1] = 2 * Scale /\ ret.y_coords[2] > 0

\* the forward camber of C8: (cld/6) * (3p^2 - 6p*x + 4x^3)
C8_ForwardCubic(xi, cld, p) ==
    Mul(cld \div 6, 3 * Mul(p, p) - Mul(6 * p, xi) + 4 * Mul(Mul(xi, xi), xi))

\* C8: in five-digit generation with p # 0, samples with x < p get
\* yc = (cld/6)*(3p^2 - 6p*x + 4x^3), and the camber and slope expressions
\* for x >= p are not the ones for x < p.
C8_FiveDigitPiecewise ==
    (Called /\ ret.fn = "generate_naca5" /\ ret.returned /\ P5(naca) # 0
            /\ Cld5(naca) # 0 /\ chord_length > 0 /\ num_points >= 3)
        => /\ \A i \in 1..Len(ret.x) :
                 ret.x[i] < P5(naca)
                    => ret.yc[i] = C8_ForwardCubic(ret.x[i], Cld5(naca), P5(naca))
           /\ \E xi \in {0, Scale \div 4, Scale \div 2, Scale} :
                 Camber5Aft(xi, Cld5(naca), P5(naca)).yc
                    # Camber5Forward(xi, Cld5(naca), P5(naca)).yc
           /\ \E xi \in {0, Scale \div 4, Scale \div 2, Scale} :
                 Camber5Aft(xi, Cld5(naca), P5(naca)).dyc_dx
                    # Camber5Forward(xi, Cld5(naca), P5(naca)).dyc_dx

\* C9: a six-digit request that ends with coordinates plotted and exported
\* carries a signal that the result is the symmetric approximation.
C9_FallbackSignalled ==
    (pc = "done" /\ ret.fn = "generate_naca6" /\ display.plotted /\ display.download)
        => display.messages # {}

\* C10: in four-digit generation with p # 0 every sample is assigned by
\* exactly one camber branch: the forward one when x < p, the aft one when
\* x >= p, the seam sample x = p included.
C10_OneBranchPerSample ==
    (Called /\ ret.fn = "generate_naca4" /\ ret.returned /\ P4(naca) # 0)
        => /\ Len(ret.hits) = num_points
           /\ \A i \in 1..num_points :
                 /\ ret.x[i] < P4(naca) => ret.hits[i] = <<"fwd">>
                 /\ ret.x[i] >= P4(naca) => ret.hits[i] = <<"aft">>

C10_Witness ==
    /\ Called /\ ret.fn = "generate_naca4" /\ naca[2] = "5" /\ num_points = 3
    /\ ret.x[2] = P4(naca)
    /\ ret.hits = <<<<"fwd">>, <<"aft">>, <<"aft">>>>

====
